---- MODULE Spec2Model ----
(***************************************************************************)
(* SpatialRef (src/src/spatial_ref/srs.rs): an owned wrapper around one    *)
(* OGRSpatialReferenceH of the GDAL/OGR engine.  The model holds the       *)
(* engine's objects and export buffers, the wrappers the host program      *)
(* holds, and the outcome of the last operation together with the engine   *)
(* calls that operation made, in order.                                    *)
(***************************************************************************)
EXTENDS Integers, Sequences, FiniteSets, TLC

VARIABLES heap, bufs, wrap, held, last

vars == <<heap, bufs, wrap, held, last>>

(***************************************************************************)
(* Bounds of the model.                                                    *)
(***************************************************************************)
MaxObj == 3
MaxWrap == 2
MaxBuf == 2
MaxTextLen == 1
MaxVal == 1

(***************************************************************************)
(* Program constants.                                                      *)
(***************************************************************************)
NULL == 0
OGRERR_NONE == 0
OGRERR_UNSUPPORTED_SRS == 7

Objs == 1..MaxObj
Bufs == 1..MaxBuf
Wraps == 1..MaxWrap
Vals == 0..MaxVal

\* Host text: byte strings; byte 0 is the NUL byte.
Bytes == {0, 1, 2}
Texts == UNION {[1..n -> Bytes] : n \in 0..MaxTextLen}

\* The codes the engine reports on failure (CORRUPT_DATA, FAILURE, UNSUPPORTED_SRS).
FailCodes == {5, 6, 7}
EpsgCodes == {0, 2154, 3025, 4326, 32632}
Strategies == {0, 1}

(***************************************************************************)
(* Text marshalling.                                                       *)
(***************************************************************************)
HasNul(t) == \E i \in 1..Len(t) : t[i] = 0

\* CString::new without its test: the bytes are handed over as they are.
CStringNew_Unchecked(t) == [ok |-> TRUE, c |-> Append(t, 0)]

\* CString::new: refuses an interior NUL, else appends the terminator.
CStringNew(t) ==
  IF HasNul(t) THEN [ok |-> FALSE, c |-> <<>>] ELSE [ok |-> TRUE, c |-> Append(t, 0)]

\* What a reader of a C string sees: the bytes before the first NUL.
RECURSIVE CStrRead(_)
CStrRead(c) ==
  IF c = <<>> \/ Head(c) = 0 THEN <<>> ELSE <<Head(c)>> \o CStrRead(Tail(c))

\* UTF-8 as str::from_utf8 accepts it: one byte below 128; a lead byte
\* 194..223 and one continuation byte; 224..239 and two; 240..244 and three;
\* with the second byte narrowed after 224, 237, 240 and 244 (no overlong
\* form, no surrogate, nothing above U+10FFFF).
IsContinuation(x) == x \in 128..191

RECURSIVE IsUtf8(_)
IsUtf8(b) ==
  IF b = <<>> THEN TRUE
  ELSE LET x == b[1]
           n == Len(b)
       IN IF x < 128 THEN IsUtf8(Tail(b))
          ELSE IF x \in 194..223
          THEN n >= 2 /\ IsContinuation(b[2]) /\ IsUtf8(SubSeq(b, 3, n))
          ELSE IF x \in 224..239
          THEN /\ n >= 3
               /\ b[2] \in (IF x = 224 THEN 160..191 ELSE IF x = 237 THEN 128..159 ELSE 128..191)
               /\ IsContinuation(b[3])
               /\ IsUtf8(SubSeq(b, 4, n))
          ELSE IF x \in 240..244
          THEN /\ n >= 4
               /\ b[2] \in (IF x = 240 THEN 144..191 ELSE IF x = 244 THEN 128..143 ELSE 128..191)
               /\ IsContinuation(b[3]) /\ IsContinuation(b[4])
               /\ IsUtf8(SubSeq(b, 5, n))
          ELSE FALSE

\* CStr::to_str: <<s>> when the bytes are UTF-8, <<>> when they are not.
ToStr(b) == IF IsUtf8(b) THEN <<b>> ELSE <<>>

\* i32::from_str: an optional sign, then one or more decimal digits, the
\* value within the 32-bit signed range; <<n>> on success, <<>> on failure.
IsDigit(b) == b \in 48..57

RECURSIVE StripZeros(_)
StripZeros(d) == IF Len(d) > 1 /\ Head(d) = 48 THEN StripZeros(Tail(d)) ELSE d

RECURSIVE DecimalValue(_)
DecimalValue(d) ==
  IF d = <<>> THEN 0 ELSE 10 * DecimalValue(SubSeq(d, 1, Len(d) - 1)) + (d[Len(d)] - 48)

\* d <= e for digit strings of the same length.
RECURSIVE DigitsLeq(_, _)
DigitsLeq(d, e) ==
  IF d = <<>> THEN TRUE
  ELSE IF Head(d) # Head(e) THEN Head(d) < Head(e)
  ELSE DigitsLeq(Tail(d), Tail(e))

I32FromStr(s) ==
  LET signed == s # <<>> /\ s[1] \in {43, 45}
      neg == s # <<>> /\ s[1] = 45
      digits == IF signed THEN Tail(s) ELSE s
      d == StripZeros(digits)
      fits == \/ Len(d) < 10
              \/ Len(d) = 10 /\ DigitsLeq(d, IF neg THEN <<50, 49, 52, 55, 52, 56, 51, 54, 52, 56>>
                                                 ELSE <<50, 49, 52, 55, 52, 56, 51, 54, 52, 55>>)
  IN IF digits = <<>> \/ (\E i \in 1..Len(digits) : ~IsDigit(digits[i])) \/ ~fits THEN <<>>
     ELSE IF Len(d) = 10 /\ neg /\ d = <<50, 49, 52, 55, 52, 56, 51, 54, 52, 56>>
     THEN <<(-2147483647) - 1>>
     ELSE <<IF neg THEN 0 - DecimalValue(d) ELSE DecimalValue(d)>>

(***************************************************************************)
(* Results and the log of engine calls.                                    *)
(***************************************************************************)
NoKey == <<>>
Ok(v) == [kind |-> "Ok", method |-> "", err |-> OGRERR_NONE, key |-> NoKey, val |-> v]
NullPointerErr(m) ==
  [kind |-> "NullPointer", method |-> m, err |-> OGRERR_NONE, key |-> NoKey, val |-> <<>>]
OgrError(rv, m) ==
  [kind |-> "OgrError", method |-> m, err |-> rv, key |-> NoKey, val |-> <<>>]
FfiNulError ==
  [kind |-> "FfiNulError", method |-> "", err |-> OGRERR_NONE, key |-> NoKey, val |-> <<>>]
StrUtf8Error ==
  [kind |-> "StrUtf8Error", method |-> "", err |-> OGRERR_NONE, key |-> NoKey, val |-> <<>>]
AxisNotFoundError(k, m) ==
  [kind |-> "AxisNotFoundError", method |-> m, err |-> OGRERR_NONE, key |-> k, val |-> <<>>]

\* One engine call: the entry point, the handle and the C strings it was
\* given, the result code, and the pointer or number it returned (for VSIFree
\* and _string, the pointer it was given).
Call(fn, h, txt, rv, ret) == [fn |-> fn, h |-> h, txt |-> txt, rv |-> rv, ret |-> ret]

(***************************************************************************)
(* The engine: objects.                                                    *)
(***************************************************************************)
\* The authority code recorded on the root of a definition, as the engine
\* holds it: text, in ASCII ("4326", "32632", "2154", "3025", "4171", "4308",
\* "LAMB93"); none is <<>>.
NoAuth == <<>>
Auth4326 == <<52, 51, 50, 54>>
Auth32632 == <<51, 50, 54, 51, 50>>
Auth2154 == <<50, 49, 53, 52>>
Auth3025 == <<51, 48, 50, 53>>
Auth4171 == <<52, 49, 55, 49>>
Auth4308 == <<52, 51, 48, 56>>
AuthLamb93 == <<76, 65, 77, 66, 57, 51>>

\* The authority names "EPSG" and "IGNF".
EPSG == <<69, 80, 83, 71>>
IGNF == <<73, 71, 78, 70>>

\* A definition: its kind, the coordinate reference system it describes
\* (crs), its projection parameter, the value at its root node, the
\* authority code recorded on it, and its flags.
EmptyContent ==
  [kind |-> "empty", crs |-> "none", pp |-> <<>>, attr |-> <<>>, auth |-> NoAuth,
   esri |-> FALSE, strat |-> 1]
GeogContent(crs, auth) ==
  [kind |-> "geog", crs |-> crs, pp |-> <<>>, attr |-> <<1>>, auth |-> auth,
   esri |-> FALSE, strat |-> 1]
ProjContent(crs, auth) ==
  [kind |-> "proj", crs |-> crs, pp |-> <<0>>, attr |-> <<1>>, auth |-> auth,
   esri |-> FALSE, strat |-> 1]

\* The engine's reading of a definition text (WKT, PROJ string, ESRI WKT,
\* user input): <<1>> is WGS 84 / UTM zone 32N with no authority recorded,
\* <<2>> Lambert-93 tagged IGNF:LAMB93, <<1, 1>> WGS 84 tagged EPSG:4326,
\* anything else does not parse.
ParseText(t) ==
  IF t = <<1>> THEN <<ProjContent("UTM32N", NoAuth)>>
  ELSE IF t = <<2>> THEN <<ProjContent("Lambert93", AuthLamb93)>>
  ELSE IF t = <<1, 1>> THEN <<GeogContent("WGS84", Auth4326)>>
  ELSE <<>>

\* The engine's registry: EPSG:4326 WGS 84, EPSG:32632 WGS 84 / UTM zone
\* 32N, EPSG:2154 RGF93 / Lambert-93, EPSG:3025 RT38 7.5 gon V; a code it
\* does not hold does not import.
ParseEpsg(code) ==
  IF code = 4326 THEN <<GeogContent("WGS84", Auth4326)>>
  ELSE IF code = 32632 THEN <<ProjContent("UTM32N", Auth32632)>>
  ELSE IF code = 2154 THEN <<ProjContent("Lambert93", Auth2154)>>
  ELSE IF code = 3025 THEN <<ProjContent("RT38_75gonV", Auth3025)>>
  ELSE <<>>

\* The geographic CRS a CRS is based on, and the EPSG code of a CRS.
GeogBase(crs) ==
  CASE crs = "UTM32N" -> "WGS84" [] crs = "Lambert93" -> "RGF93"
    [] crs = "RT38_75gonV" -> "RT38" [] OTHER -> crs

RegistryAuth(crs) ==
  CASE crs = "WGS84" -> Auth4326 [] crs = "UTM32N" -> Auth32632
    [] crs = "Lambert93" -> Auth2154 [] crs = "RT38_75gonV" -> Auth3025
    [] crs = "RGF93" -> Auth4171 [] crs = "RT38" -> Auth4308 [] OTHER -> NoAuth

Unalloc == [st |-> "unalloc", rel |-> 0, c |-> EmptyContent]

IsObj(h) == h \in Objs
Valid(hp, h) == IsObj(h) /\ hp[h].st = "live"
FreeObjs(hp) == {o \in Objs : hp[o].st = "unalloc"}
FreshObj(hp) == CHOOSE o \in FreeObjs(hp) : \A p \in FreeObjs(hp) : o <= p
LiveCount(hp) == Cardinality({o \in Objs : hp[o].st = "live"})

\* The pointers an allocation may return: NULL (out of memory) or a fresh object.
AllocResults(hp) == {NULL} \cup (IF FreeObjs(hp) = {} THEN {} ELSE {FreshObj(hp)})

Store(hp, o, c) == IF o = NULL THEN hp ELSE [hp EXCEPT ![o] = [st |-> "live", rel |-> 0, c |-> c]]

\* OSRNewSpatialReference(NULL): the pointers it may return.
OSRNewSpatialReference(hp) == AllocResults(hp)

\* OSRNewSpatialReference(wkt): NULL when the text does not parse.
OSRNewSpatialReferenceWkt(hp, c_str) ==
  IF CStrRead(c_str) = <<>> THEN AllocResults(hp)
  ELSE IF ParseText(CStrRead(c_str)) = <<>> THEN {NULL}
  ELSE AllocResults(hp)

WktContent(c_str) ==
  IF ParseText(CStrRead(c_str)) = <<>> THEN EmptyContent ELSE ParseText(CStrRead(c_str))[1]

\* OSRClone(h): a fresh object with h's definition, or NULL.
OSRClone(hp, h) == IF Valid(hp, h) THEN AllocResults(hp) ELSE {NULL}

\* OSRCloneGeogCS(h): a fresh object holding h's geographic base, or NULL.
OSRCloneGeogCS(hp, h) ==
  IF Valid(hp, h) /\ hp[h].c.kind # "empty" THEN AllocResults(hp) ELSE {NULL}

GeogOf(c) ==
  [GeogContent(GeogBase(c.crs),
               IF c.kind = "geog" THEN c.auth
               ELSE IF c.auth # NoAuth THEN RegistryAuth(GeogBase(c.crs)) ELSE NoAuth)
     EXCEPT !.strat = c.strat]

\* OSRRelease(h): drops the engine's reference; NULL is ignored.
OSRRelease(hp, h) ==
  IF IsObj(h) THEN [hp EXCEPT ![h].st = "released", ![h].rel = @ + 1] ELSE hp

\* An import into h: the codes the engine may return for a parsed definition.
ImportCodes(hp, h, parsed) ==
  IF Valid(hp, h) /\ parsed # <<>> THEN {OGRERR_NONE} ELSE FailCodes

Imported(hp, h, parsed, rv) ==
  IF rv = OGRERR_NONE /\ IsObj(h) THEN [hp EXCEPT ![h].c = parsed[1]] ELSE hp

\* OSRIsSame(a, b) = 1: both definitions are the same CRS.
OSRIsSame(hp, a, b) ==
  /\ Valid(hp, a) /\ Valid(hp, b)
  /\ hp[a].c.kind = hp[b].c.kind
  /\ hp[a].c.crs = hp[b].c.crs
  /\ hp[a].c.pp = hp[b].c.pp

\* The names the engine knows: the projection parameter, the tree nodes.
ParamNames == {<<1>>}
AttrPaths == {<<1>>}
AxisKeys(c) == IF c.kind = "empty" THEN {} ELSE IF c.kind = "geog" THEN {<<1>>} ELSE {<<1>>, <<1, 1>>}
Axes == {0, 1, 2}

\* OSRSetProjParm(h, name, value): the codes it may return, and its effect.
OSRSetProjParm(hp, h, c_name) ==
  IF Valid(hp, h) /\ hp[h].c.kind = "proj" /\ CStrRead(c_name) \in ParamNames
  THEN {OGRERR_NONE} ELSE FailCodes

ProjParmSet(hp, h, value, rv) ==
  IF rv = OGRERR_NONE /\ IsObj(h) THEN [hp EXCEPT ![h].c.pp = <<value>>] ELSE hp

\* OSRGetProjParm(h, name, default, &rv): the pairs <<code, value>> it may
\* produce; an absent parameter gives a failure code and the default.
OSRGetProjParm(hp, h, c_name, default) ==
  IF Valid(hp, h) /\ CStrRead(c_name) \in ParamNames /\ hp[h].c.pp # <<>>
  THEN {<<OGRERR_NONE, hp[h].c.pp[1]>>}
  ELSE {<<rv, default>> : rv \in FailCodes}

\* OSRGetSemiMajor / OSRGetSemiMinor(h, &rv): on failure the engine still
\* returns some number beside the code.
OSRGetSemiAxis(hp, h) ==
  IF Valid(hp, h) /\ hp[h].c.kind # "empty"
  THEN {<<OGRERR_NONE, 1>>}
  ELSE {<<rv, a>> : rv \in FailCodes, a \in Vals}

\* OSRSetAttrValue(h, path, value)
OSRSetAttrValue(hp, h, c_path) ==
  IF Valid(hp, h) /\ CStrRead(c_path) \in AttrPaths THEN {OGRERR_NONE} ELSE FailCodes

AttrValueSet(hp, h, c_value, rv) ==
  IF rv = OGRERR_NONE /\ IsObj(h) THEN [hp EXCEPT ![h].c.attr = CStrRead(c_value)] ELSE hp

\* OSRGetAttrValue(h, path, child): <<>> is the null pointer, <<s>> a pointer to s.
OSRGetAttrValue(hp, h, c_path, child) ==
  IF Valid(hp, h) /\ hp[h].c.kind # "empty" /\ CStrRead(c_path) \in AttrPaths /\ child = 0
  THEN <<Append(hp[h].c.attr, 0)>> ELSE <<>>

\* OSRGetAxis(h, key, axis, &orientation): <<>> is the null pointer, else the
\* axis name (a C string) and its orientation.
OSRGetAxis(hp, h, c_key, axis) ==
  IF Valid(hp, h) /\ CStrRead(c_key) \in AxisKeys(hp[h].c) /\ axis \in {0, 1}
  THEN <<[name |-> <<1, 0>>, orientation |-> IF axis = 0 THEN 1 ELSE 3]>>
  ELSE <<>>

\* OSRMorphToESRI(h)
OSRMorphToESRI(hp, h) == IF Valid(hp, h) THEN {OGRERR_NONE} ELSE FailCodes

Morphed(hp, h, rv) ==
  IF rv = OGRERR_NONE /\ IsObj(h) THEN [hp EXCEPT ![h].c.esri = TRUE] ELSE hp

\* OSRAutoIdentifyEPSG(h): succeeds when an authority is recorded or the
\* definition matches an entry of the registry (a projected one as long as
\* its parameter is the entry's).
Identifiable(c) ==
  \/ c.auth # NoAuth
  \/ RegistryAuth(c.crs) # NoAuth /\ (c.kind = "proj" => c.pp = <<0>>)

OSRAutoIdentifyEPSG(hp, h) ==
  IF Valid(hp, h) /\ Identifiable(hp[h].c) THEN {OGRERR_NONE} ELSE FailCodes

Identified(hp, h, rv) ==
  IF rv = OGRERR_NONE /\ IsObj(h) /\ hp[h].c.auth = NoAuth
  THEN [hp EXCEPT ![h].c.auth = RegistryAuth(hp[h].c.crs)] ELSE hp

\* OSRSetAxisMappingStrategy / OSRGetAxisMappingStrategy
OSRSetAxisMappingStrategy(hp, h, strategy) ==
  IF Valid(hp, h) THEN [hp EXCEPT ![h].c.strat = strategy] ELSE hp

OSRGetAxisMappingStrategy(hp, h) == IF Valid(hp, h) THEN hp[h].c.strat ELSE 0

\* OSRGetAuthorityName(h, NULL) / OSRGetAuthorityCode(h, NULL): <<>> is the
\* null pointer, <<s>> a pointer to the C string s held by the engine.
AuthorityNameOf(auth) == IF auth = AuthLamb93 THEN IGNF ELSE EPSG

OSRGetAuthorityName(hp, h) ==
  IF Valid(hp, h) /\ hp[h].c.auth # NoAuth
  THEN <<Append(AuthorityNameOf(hp[h].c.auth), 0)>> ELSE <<>>

OSRGetAuthorityCode(hp, h) ==
  IF Valid(hp, h) /\ hp[h].c.auth # NoAuth THEN <<Append(hp[h].c.auth, 0)>> ELSE <<>>

\* OSRGetName(h): the name of the CRS ("A" geographic, "B" projected); null
\* for a null handle and for an object with no definition.
OSRGetName(hp, h) ==
  IF Valid(hp, h) /\ hp[h].c.kind # "empty"
  THEN <<IF hp[h].c.kind = "geog" THEN <<65, 0>> ELSE <<66, 0>>>> ELSE <<>>

\* OSRGetAngularUnits(h, &name) / OSRGetLinearUnits(h, &name): the engine
\* stores a unit name ("d" for degree, "m" for metre, "u" for unknown) for
\* every object; a null handle leaves the caller's pointer as it was, null.
OSRGetAngularUnits(hp, h) == IF Valid(hp, h) THEN <<<<100, 0>>>> ELSE <<>>

OSRGetLinearUnits(hp, h) ==
  IF Valid(hp, h) THEN <<IF hp[h].c.kind = "proj" THEN <<109, 0>> ELSE <<117, 0>>>> ELSE <<>>

\* OSRGetAreaOfUse(h, &w, &s, &e, &n, &name): the value returned (1 when an
\* area is defined) and what the five out-parameters hold afterwards; with
\* no area they keep what the caller put in them (zeros, a null name).
\* Definitions tied to a registry entry have an area of use.
NoArea == [ret |-> 0, w_long |-> 0, s_lat |-> 0, e_long |-> 0, n_lat |-> 0, name |-> <<>>]

OSRGetAreaOfUse(hp, h) ==
  IF ~Valid(hp, h) \/ hp[h].c.auth = NoAuth THEN NoArea
  ELSE IF hp[h].c.crs = "WGS84"
  THEN [ret |-> 1, w_long |-> -180, s_lat |-> -90, e_long |-> 180, n_lat |-> 90,
        name |-> <<<<87, 0>>>>]
  ELSE IF hp[h].c.crs = "UTM32N"
  THEN [ret |-> 1, w_long |-> 6, s_lat |-> 0, e_long |-> 12, n_lat |-> 84,
        name |-> <<<<85, 0>>>>]
  ELSE IF hp[h].c.crs \in {"Lambert93", "RGF93"}
  THEN [ret |-> 1, w_long |-> -10, s_lat |-> 41, e_long |-> 10, n_lat |-> 52,
        name |-> <<<<70, 0>>>>]
  ELSE [ret |-> 1, w_long |-> 10, s_lat |-> 55, e_long |-> 25, n_lat |-> 70,
        name |-> <<<<83, 0>>>>]

(***************************************************************************)
(* The engine: export buffers.                                             *)
(***************************************************************************)
Formats == {"Wkt", "PrettyWkt", "XML", "Proj4", "PROJJSON"}
FormatByte(fmt) ==
  CASE fmt = "Wkt" -> 1 [] fmt = "PrettyWkt" -> 2 [] fmt = "XML" -> 3
    [] fmt = "Proj4" -> 4 [] OTHER -> 5

\* The text the engine exports for a definition: a C string, with a byte
\* for the format, the kind, the CRS and the dialect, then the parameter
\* and the root value.
CrsByte(crs) ==
  CASE crs = "WGS84" -> 1 [] crs = "UTM32N" -> 2 [] crs = "Lambert93" -> 3
    [] crs = "RT38_75gonV" -> 4 [] crs = "RGF93" -> 5 [] OTHER -> 6

ExportBytes(c, fmt) ==
  IF c.kind = "empty" THEN <<0>>
  ELSE <<FormatByte(fmt), IF c.kind = "geog" THEN 1 ELSE 2, CrsByte(c.crs),
         IF c.esri THEN 2 ELSE 1>>
       \o (IF c.pp = <<>> THEN <<>> ELSE <<c.pp[1] + 1>>) \o c.attr \o <<0>>

Exportable(c, fmt) == c.kind # "empty" \/ fmt \in {"Wkt", "PrettyWkt"}

FreeBufs(bf) == {b \in Bufs : bf[b].st # "alloc"}
FreshBuf(bf) == CHOOSE b \in FreeBufs(bf) : \A p \in FreeBufs(bf) : b <= p

\* OSRExportTo<fmt>(h, &buf): the pairs <<code, buffer>> the engine may
\* produce: success with a buffer; failure with none, or with a buffer.
OSRExportTo(hp, bf, h, fmt) ==
  IF FreeBufs(bf) = {} \/ ~Valid(hp, h) THEN {<<rv, NULL>> : rv \in FailCodes}
  ELSE IF Exportable(hp[h].c, fmt) THEN {<<OGRERR_NONE, FreshBuf(bf)>>}
  ELSE {<<rv, b>> : rv \in FailCodes, b \in {NULL, FreshBuf(bf)}}

BufAlloc(bf, b, data) ==
  IF b = NULL THEN bf ELSE [bf EXCEPT ![b] = [st |-> "alloc", nfree |-> 0, data |-> data]]

\* VSIFree(p): frees the buffer; NULL is a no-op.
VSIFree(bf, b) ==
  IF b = NULL THEN bf
  ELSE [bf EXCEPT ![b] = [st |-> "freed", nfree |-> bf[b].nfree + 1, data |-> <<>>]]

\* _string(p): the bytes of the C string at p, copied into an owned String.
\* A freed buffer holds nothing definite.
StringOf(bf, b) ==
  IF b # NULL /\ bf[b].st = "alloc" THEN CStrRead(bf[b].data) ELSE <<9>>

(***************************************************************************)
(* The wrappers.                                                           *)
(***************************************************************************)
Unborn == [st |-> "unborn", ref |-> NULL]
Live(w) == wrap[w].st = "live"
FreeWraps == {w \in Wraps : wrap[w].st = "unborn"}
NextWrap == CHOOSE w \in FreeWraps : \A v \in FreeWraps : w <= v

NoLast == [op |-> "idle", w |-> 0, made |-> 0, txt |-> <<>>, num |-> 0,
           res |-> Ok(<<>>), calls |-> <<>>]

Init ==
  /\ heap = [o \in Objs |-> Unalloc]
  /\ bufs = [b \in Bufs |-> [st |-> "unalloc", nfree |-> 0, data |-> <<>>]]
  /\ wrap = [w \in Wraps |-> Unborn]
  /\ held = [w \in Wraps |-> [obj |-> NULL, src |-> NULL]]
  /\ last = NoLast

\* An operation returns: its name, the wrapper it ran on, the wrapper it made,
\* its text and numeric arguments, its result and the engine calls it made.
Return(op, w, made, txt, num, res, calls) ==
  last' = [op |-> op, w |-> w, made |-> made, txt |-> txt, num |-> num,
           res |-> res, calls |-> calls]

\* SpatialRef(c_obj): a new wrapper value around c_obj.  held remembers the
\* pointer the wrapper was built around and, for from_c_obj, the caller's
\* handle it was cloned from.
SpatialRefFrom(c_obj, src) ==
  /\ wrap' = [wrap EXCEPT ![NextWrap] = [st |-> "live", ref |-> c_obj]]
  /\ held' = [held EXCEPT ![NextWrap] = [obj |-> c_obj, src |-> src]]

SpatialRef(c_obj) == SpatialRefFrom(c_obj, NULL)

NoWrapper == UNCHANGED <<wrap, held>>

(***************************************************************************)
(* Constructors.                                                           *)
(***************************************************************************)
new ==
  /\ FreeWraps # {}
  /\ \E c_obj \in OSRNewSpatialReference(heap) :
       LET cs == <<Call("OSRNewSpatialReference", NULL, <<>>, OGRERR_NONE, c_obj)>>
       IN /\ heap' = Store(heap, c_obj, EmptyContent)
          /\ UNCHANGED bufs
          /\ IF c_obj = NULL
             THEN /\ NoWrapper
                  /\ Return("new", 0, 0, <<>>, 0, NullPointerErr("OSRNewSpatialReference"), cs)
             ELSE /\ SpatialRef(c_obj)
                  /\ Return("new", 0, NextWrap, <<>>, 0, Ok(<<>>), cs)

\* from_definition: allocate, encode the text, import; an error is returned
\* as soon as a step fails, with nothing else done.
from_definition(definition) ==
  /\ FreeWraps # {}
  /\ UNCHANGED bufs
  /\ \E c_obj \in OSRNewSpatialReference(heap) :
       LET h1 == Store(heap, c_obj, EmptyContent)
           c1 == <<Call("OSRNewSpatialReference", NULL, <<>>, OGRERR_NONE, c_obj)>>
           cstr == CStringNew(definition)
       IN IF c_obj = NULL
          THEN /\ heap' = h1 /\ NoWrapper
               /\ Return("from_definition", 0, 0, <<definition>>, 0,
                         NullPointerErr("OSRNewSpatialReference"), c1)
          ELSE IF ~cstr.ok
          THEN /\ heap' = h1 /\ NoWrapper
               /\ Return("from_definition", 0, 0, <<definition>>, 0, FfiNulError, c1)
          ELSE \E rv \in ImportCodes(h1, c_obj, ParseText(CStrRead(cstr.c))) :
                 LET c2 == Append(c1, Call("OSRSetFromUserInput", c_obj, <<cstr.c>>, rv, NULL))
                 IN /\ heap' = Imported(h1, c_obj, ParseText(CStrRead(cstr.c)), rv)
                    /\ IF rv # OGRERR_NONE
                       THEN /\ NoWrapper
                            /\ Return("from_definition", 0, 0, <<definition>>, 0,
                                      OgrError(rv, "OSRSetFromUserInput"), c2)
                       ELSE /\ SpatialRef(c_obj)
                            /\ Return("from_definition", 0, NextWrap, <<definition>>, 0,
                                      Ok(<<>>), c2)

\* from_wkt: encode the text, then allocate-and-parse in one engine call.
from_wkt(wkt) ==
  /\ FreeWraps # {}
  /\ UNCHANGED bufs
  /\ LET c_str == CStringNew(wkt)
     IN IF ~c_str.ok
        THEN /\ UNCHANGED heap /\ NoWrapper
             /\ Return("from_wkt", 0, 0, <<wkt>>, 0, FfiNulError, <<>>)
        ELSE \E c_obj \in OSRNewSpatialReferenceWkt(heap, c_str.c) :
               LET cs == <<Call("OSRNewSpatialReference", NULL, <<c_str.c>>, OGRERR_NONE, c_obj)>>
               IN /\ heap' = Store(heap, c_obj, WktContent(c_str.c))
                  /\ IF c_obj = NULL
                     THEN /\ NoWrapper
                          /\ Return("from_wkt", 0, 0, <<wkt>>, 0,
                                    NullPointerErr("OSRNewSpatialReference"), cs)
                     ELSE /\ SpatialRef(c_obj)
                          /\ Return("from_wkt", 0, NextWrap, <<wkt>>, 0, Ok(<<>>), cs)

\* from_epsg: allocate, then import by code; the allocation is not tested.
from_epsg(epsg_code) ==
  /\ FreeWraps # {}
  /\ UNCHANGED bufs
  /\ \E c_obj \in OSRNewSpatialReference(heap) :
       LET h1 == Store(heap, c_obj, EmptyContent)
       IN \E rv \in ImportCodes(h1, c_obj, ParseEpsg(epsg_code)) :
            LET cs == <<Call("OSRNewSpatialReference", NULL, <<>>, OGRERR_NONE, c_obj),
                        Call("OSRImportFromEPSG", c_obj, <<>>, rv, NULL)>>
            IN /\ heap' = Imported(h1, c_obj, ParseEpsg(epsg_code), rv)
               /\ IF rv # OGRERR_NONE
                  THEN /\ NoWrapper
                       /\ Return("from_epsg", 0, 0, <<>>, epsg_code,
                                 OgrError(rv, "OSRImportFromEPSG"), cs)
                  ELSE /\ SpatialRef(c_obj)
                       /\ Return("from_epsg", 0, NextWrap, <<>>, epsg_code, Ok(<<>>), cs)

\* from_proj4 and from_esri: encode the text, allocate, then import with the
\* engine's entry point fn; the allocation is not tested.
ImportText(op, fn, text) ==
  /\ FreeWraps # {}
  /\ UNCHANGED bufs
  /\ LET c_str == CStringNew(text)
     IN IF ~c_str.ok
        THEN /\ UNCHANGED heap /\ NoWrapper
             /\ Return(op, 0, 0, <<text>>, 0, FfiNulError, <<>>)
        ELSE \E c_obj \in OSRNewSpatialReference(heap) :
               LET h1 == Store(heap, c_obj, EmptyContent)
               IN \E rv \in ImportCodes(h1, c_obj, ParseText(CStrRead(c_str.c))) :
                    LET cs == <<Call("OSRNewSpatialReference", NULL, <<>>, OGRERR_NONE, c_obj),
                                Call(fn, c_obj, <<c_str.c>>, rv, NULL)>>
                    IN /\ heap' = Imported(h1, c_obj, ParseText(CStrRead(c_str.c)), rv)
                       /\ IF rv # OGRERR_NONE
                          THEN /\ NoWrapper
                               /\ Return(op, 0, 0, <<text>>, 0, OgrError(rv, fn), cs)
                          ELSE /\ SpatialRef(c_obj)
                               /\ Return(op, 0, NextWrap, <<text>>, 0, Ok(<<>>), cs)

from_proj4(proj4_string) == ImportText("from_proj4", "OSRImportFromProj4", proj4_string)

from_esri(esri_wkt) == ImportText("from_esri", "OSRImportFromESRI", esri_wkt)

\* to_c_hsrs: the raw handle a wrapper holds.
to_c_hsrs(w) == wrap[w].ref

\* from_c_obj that wraps the caller's handle itself, with no engine clone.
from_c_obj_NoClone(c_obj) ==
  /\ FreeWraps # {}
  /\ UNCHANGED <<heap, bufs>>
  /\ SpatialRefFrom(c_obj, c_obj)
  /\ Return("from_c_obj", 0, NextWrap, <<>>, c_obj, Ok(<<>>), <<>>)

\* from_c_obj: wrap an engine-level clone of the caller's handle.
from_c_obj(c_obj) ==
  /\ FreeWraps # {}
  /\ UNCHANGED bufs
  /\ \E mut_c_obj \in OSRClone(heap, c_obj) :
       LET cs == <<Call("OSRClone", c_obj, <<>>, OGRERR_NONE, mut_c_obj)>>
       IN /\ heap' = Store(heap, mut_c_obj, heap[c_obj].c)
          /\ IF mut_c_obj = NULL
             THEN /\ NoWrapper
                  /\ Return("from_c_obj", 0, 0, <<>>, c_obj, NullPointerErr("OSRClone"), cs)
             ELSE /\ SpatialRefFrom(mut_c_obj, c_obj)
                  /\ Return("from_c_obj", 0, NextWrap, <<>>, c_obj, Ok(<<>>), cs)

\* Clone::clone: wraps whatever OSRClone returns.
clone(w) ==
  /\ Live(w)
  /\ FreeWraps # {}
  /\ UNCHANGED bufs
  /\ \E n_obj \in OSRClone(heap, wrap[w].ref) :
       /\ heap' = Store(heap, n_obj, IF IsObj(wrap[w].ref) THEN heap[wrap[w].ref].c ELSE EmptyContent)
       /\ SpatialRef(n_obj)
       /\ Return("clone", w, NextWrap, <<>>, 0, Ok(<<>>),
                 <<Call("OSRClone", wrap[w].ref, <<>>, OGRERR_NONE, n_obj)>>)

\* geog_cs: a new wrapper around the geographic base, or the null-handle error.
geog_cs(w) ==
  /\ Live(w)
  /\ FreeWraps # {}
  /\ UNCHANGED bufs
  /\ \E raw_ret \in OSRCloneGeogCS(heap, wrap[w].ref) :
       LET cs == <<Call("OSRCloneGeogCS", wrap[w].ref, <<>>, OGRERR_NONE, raw_ret)>>
       IN /\ heap' = Store(heap, raw_ret, IF IsObj(wrap[w].ref) THEN GeogOf(heap[wrap[w].ref].c) ELSE EmptyContent)
          /\ IF raw_ret = NULL
             THEN /\ NoWrapper
                  /\ Return("geog_cs", w, 0, <<>>, 0, NullPointerErr("OSRCloneGeogCS"), cs)
             ELSE /\ SpatialRef(raw_ret)
                  /\ Return("geog_cs", w, NextWrap, <<>>, 0, Ok(<<>>), cs)

\* PartialEq::eq
eq(w, other) ==
  /\ Live(w) /\ Live(other)
  /\ UNCHANGED <<heap, bufs, wrap, held>>
  /\ Return("eq", w, 0, <<>>, other,
            Ok(IF OSRIsSame(heap, wrap[w].ref, wrap[other].ref) THEN <<1>> ELSE <<0>>),
            <<Call("OSRIsSame", wrap[w].ref, <<>>, OGRERR_NONE, NULL)>>)

(***************************************************************************)
(* Exports.                                                                *)
(***************************************************************************)
\* An export that returns its error at once, before the buffer is freed.
ExportReturn_EarlyErr(bf, fn, h, rv, c_wkt) ==
  IF rv # OGRERR_NONE
  THEN [bufs |-> bf, res |-> OgrError(rv, fn), calls |-> <<Call(fn, h, <<>>, rv, c_wkt)>>]
  ELSE [bufs |-> VSIFree(bf, c_wkt), res |-> Ok(StringOf(bf, c_wkt)),
        calls |-> <<Call(fn, h, <<>>, rv, c_wkt),
                    Call("_string", NULL, <<>>, OGRERR_NONE, c_wkt),
                    Call("VSIFree", NULL, <<>>, OGRERR_NONE, c_wkt)>>]

\* An export that frees the buffer first and copies it afterwards.
ExportReturn_FreeFirst(bf, fn, h, rv, c_wkt) ==
  LET c1 == <<Call(fn, h, <<>>, rv, c_wkt), Call("VSIFree", NULL, <<>>, OGRERR_NONE, c_wkt)>>
  IN [bufs |-> VSIFree(bf, c_wkt),
      res |-> IF rv # OGRERR_NONE THEN OgrError(rv, fn)
              ELSE Ok(StringOf(VSIFree(bf, c_wkt), c_wkt)),
      calls |-> IF rv # OGRERR_NONE THEN c1
                ELSE Append(c1, Call("_string", NULL, <<>>, OGRERR_NONE, c_wkt))]

\* What an export does once the engine has returned rv and the buffer c_wkt
\* (held in bf): build the result, copying the buffer on success, then free
\* the buffer, then return.
ExportReturn(bf, fn, h, rv, c_wkt) ==
  LET c1 == <<Call(fn, h, <<>>, rv, c_wkt)>>
      res == IF rv # OGRERR_NONE THEN OgrError(rv, fn) ELSE Ok(StringOf(bf, c_wkt))
      c2 == IF rv # OGRERR_NONE THEN c1
            ELSE Append(c1, Call("_string", NULL, <<>>, OGRERR_NONE, c_wkt))
  IN [bufs |-> VSIFree(bf, c_wkt), res |-> res,
      calls |-> Append(c2, Call("VSIFree", NULL, <<>>, OGRERR_NONE, c_wkt))]

Export(op, fn, fmt, w) ==
  /\ Live(w)
  /\ UNCHANGED <<heap, wrap, held>>
  /\ \E out \in OSRExportTo(heap, bufs, wrap[w].ref, fmt) :
       LET data == IF out[1] = OGRERR_NONE THEN ExportBytes(heap[wrap[w].ref].c, fmt) ELSE <<0>>
           r == ExportReturn(BufAlloc(bufs, out[2], data), fn, wrap[w].ref, out[1], out[2])
       IN /\ bufs' = r.bufs
          /\ Return(op, w, 0, <<>>, 0, r.res, r.calls)

to_wkt(w) == Export("to_wkt", "OSRExportToWkt", "Wkt", w)

to_pretty_wkt(w) == Export("to_pretty_wkt", "OSRExportToPrettyWkt", "PrettyWkt", w)

to_xml(w) == Export("to_xml", "OSRExportToXML", "XML", w)

to_proj4(w) == Export("to_proj4", "OSRExportToProj4", "Proj4", w)

to_projjson(w) == Export("to_projjson", "OSRExportToPROJJSON", "PROJJSON", w)

(***************************************************************************)
(* Operations with a result code.                                          *)
(***************************************************************************)
morph_to_esri(w) ==
  /\ Live(w)
  /\ UNCHANGED <<bufs, wrap, held>>
  /\ \E rv \in OSRMorphToESRI(heap, wrap[w].ref) :
       /\ heap' = Morphed(heap, wrap[w].ref, rv)
       /\ Return("morph_to_esri", w, 0, <<>>, 0,
                 IF rv # OGRERR_NONE THEN OgrError(rv, "OSRMorphToESRI") ELSE Ok(<<>>),
                 <<Call("OSRMorphToESRI", wrap[w].ref, <<>>, rv, NULL)>>)

\* auto_identify_epsg that returns Ok whatever code the engine returned.
auto_identify_epsg_IgnoreCode(w) ==
  /\ Live(w)
  /\ UNCHANGED <<bufs, wrap, held>>
  /\ \E rv \in OSRAutoIdentifyEPSG(heap, wrap[w].ref) :
       /\ heap' = Identified(heap, wrap[w].ref, rv)
       /\ Return("auto_identify_epsg", w, 0, <<>>, 0, Ok(<<>>),
                 <<Call("OSRAutoIdentifyEPSG", wrap[w].ref, <<>>, rv, NULL)>>)

auto_identify_epsg(w) ==
  /\ Live(w)
  /\ UNCHANGED <<bufs, wrap, held>>
  /\ \E rv \in OSRAutoIdentifyEPSG(heap, wrap[w].ref) :
       /\ heap' = Identified(heap, wrap[w].ref, rv)
       /\ Return("auto_identify_epsg", w, 0, <<>>, 0,
                 IF rv # OGRERR_NONE THEN OgrError(rv, "OSRAutoIdentifyEPSG") ELSE Ok(<<>>),
                 <<Call("OSRAutoIdentifyEPSG", wrap[w].ref, <<>>, rv, NULL)>>)

\* semi_major that trusts a non-zero number over the result code.
semi_major_ValueFirst(w) ==
  /\ Live(w)
  /\ UNCHANGED <<heap, bufs, wrap, held>>
  /\ \E out \in OSRGetSemiAxis(heap, wrap[w].ref) :
       Return("semi_major", w, 0, <<>>, 0,
              IF out[2] # 0 THEN Ok(<<out[2]>>)
              ELSE IF out[1] # OGRERR_NONE THEN OgrError(out[1], "OSRGetSemiMajor")
              ELSE Ok(<<out[2]>>),
              <<Call("OSRGetSemiMajor", wrap[w].ref, <<>>, out[1], out[2])>>)

semi_major(w) ==
  /\ Live(w)
  /\ UNCHANGED <<heap, bufs, wrap, held>>
  /\ \E out \in OSRGetSemiAxis(heap, wrap[w].ref) :
       Return("semi_major", w, 0, <<>>, 0,
              IF out[1] # OGRERR_NONE THEN OgrError(out[1], "OSRGetSemiMajor") ELSE Ok(<<out[2]>>),
              <<Call("OSRGetSemiMajor", wrap[w].ref, <<>>, out[1], out[2])>>)

semi_minor(w) ==
  /\ Live(w)
  /\ UNCHANGED <<heap, bufs, wrap, held>>
  /\ \E out \in OSRGetSemiAxis(heap, wrap[w].ref) :
       Return("semi_minor", w, 0, <<>>, 0,
              IF out[1] # OGRERR_NONE THEN OgrError(out[1], "OSRGetSemiMinor") ELSE Ok(<<out[2]>>),
              <<Call("OSRGetSemiMinor", wrap[w].ref, <<>>, out[1], out[2])>>)

set_proj_param(w, name, value) ==
  /\ Live(w)
  /\ UNCHANGED <<bufs, wrap, held>>
  /\ LET c_name == CStringNew(name)
     IN IF ~c_name.ok
        THEN /\ UNCHANGED heap
             /\ Return("set_proj_param", w, 0, <<name>>, value, FfiNulError, <<>>)
        ELSE \E rv \in OSRSetProjParm(heap, wrap[w].ref, c_name.c) :
               /\ heap' = ProjParmSet(heap, wrap[w].ref, value, rv)
               /\ Return("set_proj_param", w, 0, <<name>>, value,
                         IF rv # OGRERR_NONE THEN OgrError(rv, "OSRSetProjParm") ELSE Ok(<<>>),
                         <<Call("OSRSetProjParm", wrap[w].ref, <<c_name.c>>, rv, NULL)>>)

get_proj_param(w, name) ==
  /\ Live(w)
  /\ UNCHANGED <<heap, bufs, wrap, held>>
  /\ LET c_name == CStringNew(name)
     IN IF ~c_name.ok
        THEN Return("get_proj_param", w, 0, <<name>>, 0, FfiNulError, <<>>)
        ELSE \E out \in OSRGetProjParm(heap, wrap[w].ref, c_name.c, 0) :
               Return("get_proj_param", w, 0, <<name>>, 0,
                      IF out[1] # OGRERR_NONE THEN OgrError(out[1], "OSRGetProjParm")
                      ELSE Ok(<<out[2]>>),
                      <<Call("OSRGetProjParm", wrap[w].ref, <<c_name.c>>, out[1], out[2])>>)

\* get_proj_param_or_default that hands the engine get_proj_param's 0.0.
get_proj_param_or_default_ZeroDefault(w, name, default) ==
  /\ Live(w)
  /\ UNCHANGED <<heap, bufs, wrap, held>>
  /\ LET c_name == CStringNew(name)
     IN IF ~c_name.ok
        THEN Return("get_proj_param_or_default", w, 0, <<name>>, default, Ok(<<default>>), <<>>)
        ELSE \E out \in OSRGetProjParm(heap, wrap[w].ref, c_name.c, 0) :
               Return("get_proj_param_or_default", w, 0, <<name>>, default, Ok(<<out[2]>>),
                      <<Call("OSRGetProjParm", wrap[w].ref, <<c_name.c>>, OGRERR_NONE, out[2])>>)

\* get_proj_param_or_default: the engine is given no slot for its code.
get_proj_param_or_default(w, name, default) ==
  /\ Live(w)
  /\ UNCHANGED <<heap, bufs, wrap, held>>
  /\ LET c_name == CStringNew(name)
     IN IF ~c_name.ok
        THEN Return("get_proj_param_or_default", w, 0, <<name>>, default, Ok(<<default>>), <<>>)
        ELSE \E out \in OSRGetProjParm(heap, wrap[w].ref, c_name.c, default) :
               Return("get_proj_param_or_default", w, 0, <<name>>, default, Ok(<<out[2]>>),
                      <<Call("OSRGetProjParm", wrap[w].ref, <<c_name.c>>, OGRERR_NONE, out[2])>>)

set_attr_value(w, node_path, new_value) ==
  /\ Live(w)
  /\ UNCHANGED <<bufs, wrap, held>>
  /\ LET c_node_path == CStringNew(node_path)
         c_new_value == CStringNew(new_value)
     IN IF ~c_node_path.ok \/ ~c_new_value.ok
        THEN /\ UNCHANGED heap
             /\ Return("set_attr_value", w, 0, <<node_path, new_value>>, 0, FfiNulError, <<>>)
        ELSE \E rv \in OSRSetAttrValue(heap, wrap[w].ref, c_node_path.c) :
               /\ heap' = AttrValueSet(heap, wrap[w].ref, c_new_value.c, rv)
               /\ Return("set_attr_value", w, 0, <<node_path, new_value>>, 0,
                         IF rv # OGRERR_NONE THEN OgrError(rv, "OSRSetAttrValue") ELSE Ok(<<>>),
                         <<Call("OSRSetAttrValue", wrap[w].ref,
                                <<c_node_path.c, c_new_value.c>>, rv, NULL)>>)

(***************************************************************************)
(* Operations whose engine call answers with a pointer.                    *)
(***************************************************************************)
\* A pointer into the engine, as the call log shows it: 0 for null.
PtrOf(p) == IF p = <<>> THEN NULL ELSE 1

get_attr_value(w, node_path, child) ==
  /\ Live(w)
  /\ UNCHANGED <<heap, bufs, wrap, held>>
  /\ LET c_node_path == CStringNew(node_path)
         c_ptr_value == OSRGetAttrValue(heap, wrap[w].ref, c_node_path.c, child)
     IN IF ~c_node_path.ok
        THEN Return("get_attr_value", w, 0, <<node_path>>, child, FfiNulError, <<>>)
        ELSE Return("get_attr_value", w, 0, <<node_path>>, child,
                    IF c_ptr_value = <<>> THEN NullPointerErr("OSRGetAttrValue")
                    ELSE Ok(CStrRead(c_ptr_value[1])),
                    <<Call("OSRGetAttrValue", wrap[w].ref, <<c_node_path.c>>, OGRERR_NONE,
                           PtrOf(c_ptr_value))>>)

axis_orientation(w, target_key, axis) ==
  /\ Live(w)
  /\ UNCHANGED <<heap, bufs, wrap, held>>
  /\ LET c_key == CStringNew(target_key)
         c_ptr == OSRGetAxis(heap, wrap[w].ref, c_key.c, axis)
     IN IF ~c_key.ok
        THEN Return("axis_orientation", w, 0, <<target_key>>, axis, FfiNulError, <<>>)
        ELSE Return("axis_orientation", w, 0, <<target_key>>, axis,
                    IF c_ptr = <<>> THEN AxisNotFoundError(target_key, "OSRGetAxis")
                    ELSE Ok(<<c_ptr[1].orientation>>),
                    <<Call("OSRGetAxis", wrap[w].ref, <<c_key.c>>, OGRERR_NONE, PtrOf(c_ptr))>>)

\* axis_name that reports a null axis as the other accessors report a null
\* pointer.
axis_name_NullPointer(w, target_key, axis) ==
  /\ Live(w)
  /\ UNCHANGED <<heap, bufs, wrap, held>>
  /\ LET c_key == CStringNew(target_key)
         c_ptr == OSRGetAxis(heap, wrap[w].ref, c_key.c, axis)
     IN IF ~c_key.ok
        THEN Return("axis_name", w, 0, <<target_key>>, axis, FfiNulError, <<>>)
        ELSE Return("axis_name", w, 0, <<target_key>>, axis,
                    IF c_ptr = <<>> THEN NullPointerErr("OSRGetAxis")
                    ELSE Ok(CStrRead(c_ptr[1].name)),
                    <<Call("OSRGetAxis", wrap[w].ref, <<c_key.c>>, OGRERR_NONE, PtrOf(c_ptr))>>)

axis_name(w, target_key, axis) ==
  /\ Live(w)
  /\ UNCHANGED <<heap, bufs, wrap, held>>
  /\ LET c_key == CStringNew(target_key)
         c_ptr == OSRGetAxis(heap, wrap[w].ref, c_key.c, axis)
     IN IF ~c_key.ok
        THEN Return("axis_name", w, 0, <<target_key>>, axis, FfiNulError, <<>>)
        ELSE Return("axis_name", w, 0, <<target_key>>, axis,
                    IF c_ptr = <<>> THEN AxisNotFoundError(target_key, "OSRGetAxis")
                    ELSE Ok(CStrRead(c_ptr[1].name)),
                    <<Call("OSRGetAxis", wrap[w].ref, <<c_key.c>>, OGRERR_NONE, PtrOf(c_ptr))>>)

\* set_axis_mapping_strategy that never reaches the engine.
set_axis_mapping_strategy_NoOp(w, strategy) ==
  /\ Live(w)
  /\ UNCHANGED <<heap, bufs, wrap, held>>
  /\ Return("set_axis_mapping_strategy", w, 0, <<>>, strategy, Ok(<<>>), <<>>)

set_axis_mapping_strategy(w, strategy) ==
  /\ Live(w)
  /\ UNCHANGED <<bufs, wrap, held>>
  /\ heap' = OSRSetAxisMappingStrategy(heap, wrap[w].ref, strategy)
  /\ Return("set_axis_mapping_strategy", w, 0, <<>>, strategy, Ok(<<>>),
            <<Call("OSRSetAxisMappingStrategy", wrap[w].ref, <<>>, OGRERR_NONE, NULL)>>)

axis_mapping_strategy(w) ==
  /\ Live(w)
  /\ UNCHANGED <<heap, bufs, wrap, held>>
  /\ Return("axis_mapping_strategy", w, 0, <<>>, 0,
            Ok(<<OSRGetAxisMappingStrategy(heap, wrap[w].ref)>>),
            <<Call("OSRGetAxisMappingStrategy", wrap[w].ref, <<>>, OGRERR_NONE, NULL)>>)

(***************************************************************************)
(* Authority, names and area of use.                                       *)
(***************************************************************************)
\* What auth_name returns for a handle, with the engine calls it makes.
AuthNameResult(hp, h) ==
  LET c_ptr == OSRGetAuthorityName(hp, h)
  IN [res |-> IF c_ptr = <<>> THEN NullPointerErr("SRGetAuthorityName")
              ELSE Ok(CStrRead(c_ptr[1])),
      calls |-> <<Call("OSRGetAuthorityName", h, <<>>, OGRERR_NONE, PtrOf(c_ptr))>>]

auth_name(w) ==
  /\ Live(w)
  /\ UNCHANGED <<heap, bufs, wrap, held>>
  /\ Return("auth_name", w, 0, <<>>, 0, AuthNameResult(heap, wrap[w].ref).res,
            AuthNameResult(heap, wrap[w].ref).calls)

\* auth_code that reports text that is no integer as it reports a null pointer.
AuthCodeResult_ParseAsNull(hp, h) ==
  LET c_ptr == OSRGetAuthorityCode(hp, h)
      epsg == IF c_ptr = <<>> THEN <<>> ELSE I32FromStr(CStrRead(c_ptr[1]))
  IN [res |-> IF epsg = <<>> THEN NullPointerErr("OSRGetAuthorityCode") ELSE Ok(epsg),
      calls |-> <<Call("OSRGetAuthorityCode", h, <<>>, OGRERR_NONE, PtrOf(c_ptr))>>]

\* What auth_code returns for a handle: the null-pointer error for a null
\* pointer, else the text read as text and parsed as an i32.
AuthCodeResult(hp, h) ==
  LET c_ptr == OSRGetAuthorityCode(hp, h)
      c_str == IF c_ptr = <<>> THEN <<>> ELSE ToStr(CStrRead(c_ptr[1]))
      epsg == IF c_str = <<>> THEN <<>> ELSE I32FromStr(c_str[1])
  IN [res |-> IF c_ptr = <<>> THEN NullPointerErr("OSRGetAuthorityCode")
              ELSE IF c_str = <<>> THEN StrUtf8Error
              ELSE IF epsg # <<>> THEN Ok(epsg)
              ELSE OgrError(OGRERR_UNSUPPORTED_SRS, "OSRGetAuthorityCode"),
      calls |-> <<Call("OSRGetAuthorityCode", h, <<>>, OGRERR_NONE, PtrOf(c_ptr))>>]

auth_code(w) ==
  /\ Live(w)
  /\ UNCHANGED <<heap, bufs, wrap, held>>
  /\ Return("auth_code", w, 0, <<>>, 0, AuthCodeResult(heap, wrap[w].ref).res,
            AuthCodeResult(heap, wrap[w].ref).calls)

\* authority that writes the code before the name.
authority_CodeFirst(w) ==
  /\ Live(w)
  /\ UNCHANGED <<heap, bufs, wrap, held>>
  /\ LET n_ptr == OSRGetAuthorityName(heap, wrap[w].ref)
         c_ptr == OSRGetAuthorityCode(heap, wrap[w].ref)
         c1 == <<Call("OSRGetAuthorityName", wrap[w].ref, <<>>, OGRERR_NONE, PtrOf(n_ptr))>>
         c2 == Append(c1, Call("OSRGetAuthorityCode", wrap[w].ref, <<>>, OGRERR_NONE,
                               PtrOf(c_ptr)))
     IN IF n_ptr = <<>>
        THEN Return("authority", w, 0, <<>>, 0, NullPointerErr("SRGetAuthorityName"), c1)
        ELSE IF c_ptr = <<>>
        THEN Return("authority", w, 0, <<>>, 0, NullPointerErr("OSRGetAuthorityCode"), c2)
        ELSE Return("authority", w, 0, <<>>, 0,
                    Ok(CStrRead(c_ptr[1]) \o <<58>> \o CStrRead(n_ptr[1])), c2)

\* authority: the name, then the code, each tested for null and read as
\* text; the result is "name:code" with the two texts as the engine gave them.
authority(w) ==
  /\ Live(w)
  /\ UNCHANGED <<heap, bufs, wrap, held>>
  /\ LET n_ptr == OSRGetAuthorityName(heap, wrap[w].ref)
         c_ptr == OSRGetAuthorityCode(heap, wrap[w].ref)
         name == IF n_ptr = <<>> THEN <<>> ELSE ToStr(CStrRead(n_ptr[1]))
         code == IF c_ptr = <<>> THEN <<>> ELSE ToStr(CStrRead(c_ptr[1]))
         c1 == <<Call("OSRGetAuthorityName", wrap[w].ref, <<>>, OGRERR_NONE, PtrOf(n_ptr))>>
         c2 == Append(c1, Call("OSRGetAuthorityCode", wrap[w].ref, <<>>, OGRERR_NONE,
                               PtrOf(c_ptr)))
     IN IF n_ptr = <<>>
        THEN Return("authority", w, 0, <<>>, 0, NullPointerErr("SRGetAuthorityName"), c1)
        ELSE IF name = <<>>
        THEN Return("authority", w, 0, <<>>, 0, StrUtf8Error, c1)
        ELSE IF c_ptr = <<>>
        THEN Return("authority", w, 0, <<>>, 0, NullPointerErr("OSRGetAuthorityCode"), c2)
        ELSE IF code = <<>>
        THEN Return("authority", w, 0, <<>>, 0, StrUtf8Error, c2)
        ELSE Return("authority", w, 0, <<>>, 0, Ok(name[1] \o <<58>> \o code[1]), c2)

\* name, angular_units_name, linear_units_name: the engine's pointer, tested
\* for null, then copied.
NameOf(op, fn, w, c_ptr) ==
  /\ Live(w)
  /\ UNCHANGED <<heap, bufs, wrap, held>>
  /\ Return(op, w, 0, <<>>, 0,
            IF c_ptr = <<>> THEN NullPointerErr(fn) ELSE Ok(CStrRead(c_ptr[1])),
            <<Call(fn, wrap[w].ref, <<>>, OGRERR_NONE, PtrOf(c_ptr))>>)

name(w) == NameOf("name", "OSRGetName", w, OSRGetName(heap, wrap[w].ref))

angular_units_name(w) ==
  NameOf("angular_units_name", "OSRGetAngularUnits", w, OSRGetAngularUnits(heap, wrap[w].ref))

linear_units_name(w) ==
  NameOf("linear_units_name", "OSRGetLinearUnits", w, OSRGetLinearUnits(heap, wrap[w].ref))

\* AreaOfUse { .. }: the four bounds and the name, copied.
AreaOfUse(out) ==
  [west_lon_degree |-> out.w_long, south_lat_degree |-> out.s_lat,
   east_lon_degree |-> out.e_long, north_lat_degree |-> out.n_lat,
   name |-> IF out.name = <<>> THEN <<9>> ELSE CStrRead(out.name[1])]

\* area_of_use that builds its value whatever the engine returned.
area_of_use_IgnoreFlag(w) ==
  /\ Live(w)
  /\ UNCHANGED <<heap, bufs, wrap, held>>
  /\ LET out == OSRGetAreaOfUse(heap, wrap[w].ref)
     IN Return("area_of_use", w, 0, <<>>, 0, Ok(<<AreaOfUse(out)>>),
               <<Call("OSRGetAreaOfUse", wrap[w].ref, <<>>, OGRERR_NONE, out.ret)>>)

\* area_of_use: Some(AreaOfUse) when the engine returns 1, else None; Ok(<<>>)
\* stands for None and Ok(<<a>>) for Some(a).
area_of_use(w) ==
  /\ Live(w)
  /\ UNCHANGED <<heap, bufs, wrap, held>>
  /\ LET out == OSRGetAreaOfUse(heap, wrap[w].ref)
     IN Return("area_of_use", w, 0, <<>>, 0,
               IF out.ret = 1 THEN Ok(<<AreaOfUse(out)>>) ELSE Ok(<<>>),
               <<Call("OSRGetAreaOfUse", wrap[w].ref, <<>>, OGRERR_NONE, out.ret)>>)

\* A drop that clears the reference and never tells the engine.
Drop_Forget(w) ==
  /\ Live(w)
  /\ wrap' = [wrap EXCEPT ![w] = [st |-> "dropped", ref |-> NULL]]
  /\ UNCHANGED <<heap, bufs, held>>
  /\ Return("drop", w, 0, <<>>, 0, Ok(<<>>), <<>>)

\* Drop::drop: release the object, then clear the reference.
Drop(w) ==
  /\ Live(w)
  /\ heap' = OSRRelease(heap, wrap[w].ref)
  /\ wrap' = [wrap EXCEPT ![w] = [st |-> "dropped", ref |-> NULL]]
  /\ UNCHANGED <<bufs, held>>
  /\ Return("drop", w, 0, <<>>, 0, Ok(<<>>),
            <<Call("OSRRelease", wrap[w].ref, <<>>, OGRERR_NONE, NULL)>>)

(***************************************************************************)
(* The host program calls one operation at a time: a call is made when the *)
(* previous result has been taken, and Resume is the caller taking it.     *)
(***************************************************************************)
Idle == last = NoLast

Resume ==
  /\ ~Idle
  /\ last' = NoLast
  /\ UNCHANGED <<heap, bufs, wrap, held>>

(***************************************************************************)
(* Construction, cloning and destruction of any number of wrappers.        *)
(***************************************************************************)
Lifecycle ==
  \/ new
  \/ \E t \in Texts : from_definition(t)
  \/ \E t \in Texts : from_wkt(t)
  \/ \E code \in EpsgCodes : from_epsg(code)
  \/ \E t \in Texts : from_proj4(t)
  \/ \E t \in Texts : from_esri(t)
  \/ \E w \in Wraps : Live(w) /\ IsObj(to_c_hsrs(w)) /\ from_c_obj(to_c_hsrs(w))
  \/ \E w \in Wraps : clone(w)
  \/ \E w \in Wraps : geog_cs(w)
  \/ \E w, o \in Wraps : eq(w, o)
  \/ \E w \in Wraps : Drop(w)

Next == (Idle /\ Lifecycle) \/ Resume

Spec == Init /\ [][Next]_vars

(***************************************************************************)
(* Every operation on one handle, from its construction to its drop.       *)
(***************************************************************************)
NoWrapperYet == \A w \in Wraps : wrap[w].st = "unborn"

HandleOps ==
  \/ NoWrapperYet /\ new
  \/ NoWrapperYet /\ \E t \in Texts : from_definition(t)
  \/ NoWrapperYet /\ \E t \in Texts : from_wkt(t)
  \/ NoWrapperYet /\ \E code \in EpsgCodes : from_epsg(code)
  \/ NoWrapperYet /\ \E t \in Texts : from_proj4(t)
  \/ NoWrapperYet /\ \E t \in Texts : from_esri(t)
  \/ \E w \in Wraps : Drop(w)
  \/ \E w \in Wraps : to_wkt(w)
  \/ \E w \in Wraps : to_pretty_wkt(w)
  \/ \E w \in Wraps : to_xml(w)
  \/ \E w \in Wraps : to_proj4(w)
  \/ \E w \in Wraps : to_projjson(w)
  \/ \E w \in Wraps : morph_to_esri(w)
  \/ \E w \in Wraps : auto_identify_epsg(w)
  \/ \E w \in Wraps : semi_major(w)
  \/ \E w \in Wraps : semi_minor(w)
  \/ \E w \in Wraps, t \in Texts, v \in Vals : set_proj_param(w, t, v)
  \/ \E w \in Wraps, t \in Texts : get_proj_param(w, t)
  \/ \E w \in Wraps, t \in Texts, v \in Vals : get_proj_param_or_default(w, t, v)
  \/ \E w \in Wraps, t, u \in Texts : set_attr_value(w, t, u)
  \/ \E w \in Wraps, t \in Texts, i \in {0, 1} : get_attr_value(w, t, i)
  \/ \E w \in Wraps, t \in Texts, i \in Axes : axis_orientation(w, t, i)
  \/ \E w \in Wraps, t \in Texts, i \in Axes : axis_name(w, t, i)
  \/ \E w \in Wraps, s \in Strategies : set_axis_mapping_strategy(w, s)
  \/ \E w \in Wraps : axis_mapping_strategy(w)
  \/ \E w \in Wraps : auth_name(w)
  \/ \E w \in Wraps : auth_code(w)
  \/ \E w \in Wraps : authority(w)
  \/ \E w \in Wraps : name(w)
  \/ \E w \in Wraps : angular_units_name(w)
  \/ \E w \in Wraps : linear_units_name(w)
  \/ \E w \in Wraps : area_of_use(w)

NextHandle == (Idle /\ HandleOps) \/ Resume

SpecHandle == Init /\ [][NextHandle]_vars

(***************************************************************************)
(* One handle and its clone, and the mutations of either.                  *)
(***************************************************************************)
NoCloneYet == \A w \in Wraps : w > 1 => wrap[w].st = "unborn"

CloneOps ==
  \/ NoWrapperYet /\ new
  \/ NoWrapperYet /\ \E t \in Texts : from_wkt(t)
  \/ NoWrapperYet /\ \E code \in EpsgCodes : from_epsg(code)
  \/ NoCloneYet /\ \E w \in Wraps : clone(w)
  \/ \E w \in Wraps, t \in Texts, v \in Vals : set_proj_param(w, t, v)
  \/ \E w \in Wraps, t, u \in Texts : set_attr_value(w, t, u)
  \/ \E w \in Wraps : auto_identify_epsg(w)
  \/ \E w \in Wraps : morph_to_esri(w)
  \/ \E w \in Wraps, s \in Strategies : set_axis_mapping_strategy(w, s)

NextClone == (Idle /\ CloneOps) \/ Resume

SpecClone == Init /\ [][NextClone]_vars

(***************************************************************************)
(* One handle built from WKT, its authority, and the operations that may   *)
(* change what the engine can match.                                       *)
(***************************************************************************)
IdentifyOps ==
  \/ NoWrapperYet /\ \E t \in Texts : from_wkt(t)
  \/ \E w \in Wraps : auth_name(w)
  \/ \E w \in Wraps : auth_code(w)
  \/ \E w \in Wraps : authority(w)
  \/ \E w \in Wraps : auto_identify_epsg(w)
  \/ \E w \in Wraps, t \in Texts, v \in Vals : set_proj_param(w, t, v)
  \/ \E w \in Wraps, t \in Texts : get_proj_param(w, t)
  \/ \E w \in Wraps : morph_to_esri(w)
  \/ \E w \in Wraps : Drop(w)

NextIdentify == (Idle /\ IdentifyOps) \/ Resume

SpecIdentify == Init /\ [][NextIdentify]_vars

(***************************************************************************)
(* One handle, its projection parameter and its axis mapping strategy, and *)
(* every operation that changes the definition behind the handle.          *)
(***************************************************************************)
\* The handles of tests::setting_proj_param and tests::axis_mapping_strategy:
\* a PROJ string, and EPSG:4326 (or a code that does not import).
RoundTripCodes == {0, 4326}

RoundTripOps ==
  \/ NoWrapperYet /\ \E t \in Texts : from_proj4(t)
  \/ NoWrapperYet /\ \E code \in RoundTripCodes : from_epsg(code)
  \/ \E w \in Wraps, t \in Texts, v \in Vals : set_proj_param(w, t, v)
  \/ \E w \in Wraps, t \in Texts : get_proj_param(w, t)
  \/ \E w \in Wraps, s \in Strategies : set_axis_mapping_strategy(w, s)
  \/ \E w \in Wraps : axis_mapping_strategy(w)
  \/ \E w \in Wraps, t, u \in Texts : set_attr_value(w, t, u)
  \/ \E w \in Wraps : auto_identify_epsg(w)
  \/ \E w \in Wraps : morph_to_esri(w)
  \/ \E w \in Wraps : Drop(w)

NextRoundTrip == (Idle /\ RoundTripOps) \/ Resume

SpecRoundTrip == Init /\ [][NextRoundTrip]_vars

(***************************************************************************)
(* The claims.                                                             *)
(***************************************************************************)
Constructors == {"new", "from_definition", "from_wkt", "from_epsg", "from_proj4", "from_esri"}
ImportConstructors == {"from_definition", "from_epsg", "from_proj4", "from_esri"}
ExportOps == {"to_wkt", "to_pretty_wkt", "to_xml", "to_proj4", "to_projjson"}
Mutators == {"set_proj_param", "set_attr_value", "auto_identify_epsg", "morph_to_esri",
             "set_axis_mapping_strategy"}

CallsOf(fn) == SelectSeq(last.calls, LAMBDA c : c.fn = fn)

\* C1: every engine object a wrapper holds is released exactly once, by the
\* drop of that wrapper: no object is released twice, an object is released
\* only if the wrapper built around it has been dropped, the object of a live
\* wrapper is live and unreleased, a dropped wrapper's reference is null and
\* its object has been released once, and a drop makes exactly one OSRRelease
\* call, on the pointer the wrapper held.
C1_ReleasedExactlyOnceAtDrop ==
  /\ \A o \in Objs :
       /\ heap[o].rel <= 1
       /\ heap[o].rel = 1 => \E w \in Wraps : wrap[w].st = "dropped" /\ held[w].obj = o
  /\ \A w \in Wraps :
       /\ Live(w) => wrap[w].ref = held[w].obj
       /\ Live(w) /\ IsObj(wrap[w].ref) =>
            heap[wrap[w].ref].st = "live" /\ heap[wrap[w].ref].rel = 0
       /\ wrap[w].st = "dropped" =>
            /\ wrap[w].ref = NULL
            /\ IsObj(held[w].obj) =>
                 heap[held[w].obj].st = "released" /\ heap[held[w].obj].rel = 1
  /\ last.op = "drop" =>
       last.calls = <<Call("OSRRelease", held[last.w].obj, <<>>, OGRERR_NONE, NULL)>>

\* C1 witness: a wrapper built around an engine object has been dropped and
\* its object released, while another wrapper still holds a live object.
C1_Witness ==
  \E w, v \in Wraps :
    /\ wrap[w].st = "dropped" /\ IsObj(held[w].obj) /\ heap[held[w].obj].rel = 1
    /\ Live(v) /\ IsObj(wrap[v].ref)

\* C2: a constructor that allocates and then imports (from_definition,
\* from_epsg, from_proj4, from_esri) and returns an error leaves as many live
\* engine objects as there were before the call.
C2_FailedConstructionLeaksNothing ==
  [][(last'.op \in ImportConstructors /\ last'.res.kind # "Ok")
       => LiveCount(heap') = LiveCount(heap)]_vars

\* C4: every live wrapper holds a non-null engine reference, whichever
\* constructor, clone or geog_cs made it.
C4_LiveWrapperNonNull ==
  \A w \in Wraps : Live(w) => wrap[w].ref # NULL

\* C5: right after c = h.clone(), c == h holds; and a mutating operation on
\* one wrapper leaves what every other wrapper's getters return unchanged.
Observed(hp, h) ==
  IF Valid(hp, h)
  THEN <<OSRGetProjParm(hp, h, <<1, 0>>, 0), OSRGetAttrValue(hp, h, <<1, 0>>, 0),
         OSRGetAxisMappingStrategy(hp, h), hp[h].c.auth, hp[h].c.crs,
         ExportBytes(hp[h].c, "Wkt")>>
  ELSE <<>>

C5_CloneEqual ==
  last.op = "clone" => OSRIsSame(heap, wrap[last.w].ref, wrap[last.made].ref)

C5_MutationFrame ==
  [][last'.op \in Mutators =>
       \A h \in Wraps : h # last'.w /\ Live(h) =>
                          Observed(heap', wrap[h].ref) = Observed(heap, wrap[h].ref)]_vars

\* C5: right after clone the clone equals its source, and a mutation through
\* one wrapper changes nothing observable through any other wrapper.
C5_CloneIndependence == []C5_CloneEqual /\ C5_MutationFrame

\* C6: no two live wrappers hold the same engine object; a wrapper made by
\* from_c_obj holds an object other than the caller's handle, and while the
\* owner of that handle lives the handle's object stays live and unreleased,
\* whether the from_c_obj wrapper lives or has been dropped.
C6_NoAliasing ==
  /\ \A w1, w2 \in Wraps :
       w1 # w2 /\ Live(w1) /\ Live(w2) /\ IsObj(wrap[w1].ref) => wrap[w1].ref # wrap[w2].ref
  /\ \A w \in Wraps : held[w].src # NULL =>
       /\ held[w].obj # held[w].src
       /\ \A v \in Wraps : Live(v) /\ wrap[v].ref = held[w].src =>
            heap[held[w].src].st = "live" /\ heap[held[w].src].rel = 0

\* C6 witness: a wrapper made by from_c_obj has been dropped and the wrapper
\* whose handle it was given is still live.
C6_Witness ==
  \E w, v \in Wraps :
    /\ wrap[w].st = "dropped" /\ held[w].src # NULL
    /\ Live(v) /\ wrap[v].ref = held[w].src

\* C7: in every constructor, when OSRNewSpatialReference returns null the
\* constructor returns the null-pointer error naming OSRNewSpatialReference
\* and makes no further engine call.
C7_NullAllocationReported ==
  last.op \in Constructors /\ CallsOf("OSRNewSpatialReference") # <<>>
    /\ CallsOf("OSRNewSpatialReference")[1].ret = NULL
  => /\ last.res = NullPointerErr("OSRNewSpatialReference")
     /\ Len(last.calls) = 1

\* The engine entry point whose result code decides each operation.
CodeFn(op) ==
  CASE op = "from_definition" -> "OSRSetFromUserInput"
    [] op = "from_epsg" -> "OSRImportFromEPSG"
    [] op = "from_proj4" -> "OSRImportFromProj4"
    [] op = "from_esri" -> "OSRImportFromESRI"
    [] op = "to_wkt" -> "OSRExportToWkt"
    [] op = "to_pretty_wkt" -> "OSRExportToPrettyWkt"
    [] op = "to_xml" -> "OSRExportToXML"
    [] op = "to_proj4" -> "OSRExportToProj4"
    [] op = "to_projjson" -> "OSRExportToPROJJSON"
    [] op = "morph_to_esri" -> "OSRMorphToESRI"
    [] op = "auto_identify_epsg" -> "OSRAutoIdentifyEPSG"
    [] op = "semi_major" -> "OSRGetSemiMajor"
    [] op = "semi_minor" -> "OSRGetSemiMinor"
    [] op = "set_proj_param" -> "OSRSetProjParm"
    [] op = "get_proj_param" -> "OSRGetProjParm"
    [] op = "set_attr_value" -> "OSRSetAttrValue"
    [] OTHER -> ""

\* C3: after an export returns, the buffer the engine returned for the call
\* has been given to VSIFree exactly once, on success and on failure alike;
\* with no buffer VSIFree is given null and no buffer changes; no buffer is
\* freed twice and none stays allocated.
C3_ExportBufferFreedOnce ==
  /\ \A b \in Bufs : bufs[b].st # "alloc" /\ bufs[b].nfree <= 1
  /\ last.op \in ExportOps =>
       /\ Len(CallsOf("VSIFree")) = 1
       /\ CallsOf("VSIFree")[1].ret = last.calls[1].ret
       /\ last.calls[Len(last.calls)].fn = "VSIFree"
       /\ last.calls[1].ret # NULL =>
            bufs[last.calls[1].ret].st = "freed" /\ bufs[last.calls[1].ret].nfree = 1

\* C3 witness: an export failed although the engine handed back a buffer,
\* and that buffer has been freed.
C3_Witness ==
  /\ last.op \in ExportOps /\ last.res.kind = "OgrError"
  /\ last.calls[1].ret # NULL /\ bufs[last.calls[1].ret].st = "freed"

\* C8: an operation whose engine call has a result code returns Ok exactly
\* when that code is OGRERR_NONE, and otherwise the one error OgrError with
\* that code and the name of that engine call, whatever number or buffer
\* came with the code.
C8_ResultFollowsCode ==
  CodeFn(last.op) # "" /\ CallsOf(CodeFn(last.op)) # <<>> =>
    /\ Len(CallsOf(CodeFn(last.op))) = 1
    /\ IF CallsOf(CodeFn(last.op))[1].rv = OGRERR_NONE
       THEN last.res.kind = "Ok"
       ELSE last.res = OgrError(CallsOf(CodeFn(last.op))[1].rv, CodeFn(last.op))

\* C8 witness: semi_major returned the engine's error although the engine
\* returned a non-zero number beside its failure code.
C8_Witness ==
  /\ last.op = "semi_major" /\ last.res.kind = "OgrError"
  /\ last.calls[1].ret # 0 /\ last.calls[1].rv = last.res.err

TextOps == {"from_definition", "from_wkt", "from_proj4", "from_esri", "axis_orientation",
            "axis_name", "set_proj_param", "get_proj_param", "set_attr_value",
            "get_attr_value"}

NulGiven == \E i \in 1..Len(last.txt) : HasNul(last.txt[i])

\* C9 as first stated: an operation given a text with an embedded NUL byte
\* returns the text-encoding error and the engine receives no text from it;
\* get_proj_param_or_default returns its default instead, with no engine call.
C9_NulTextRejected ==
  /\ last.op \in TextOps /\ NulGiven =>
       /\ last.res = FfiNulError
       /\ \A i \in 1..Len(last.calls) : last.calls[i].txt = <<>>
  /\ last.op = "get_proj_param_or_default" /\ NulGiven =>
       last.res = Ok(<<last.num>>) /\ last.calls = <<>>

\* C9 as amended: an operation given a text with an embedded NUL byte hands
\* the engine no text and returns the text-encoding error, except that
\* from_definition, which allocates before it encodes, returns the
\* null-pointer error naming OSRNewSpatialReference when that allocation
\* returned null; get_proj_param_or_default returns its default instead,
\* with no engine call.
C9_NulTextStructuredError ==
  /\ last.op \in TextOps /\ NulGiven =>
       /\ \A i \in 1..Len(last.calls) : last.calls[i].txt = <<>>
       /\ IF last.op = "from_definition" /\ last.calls[1].ret = NULL
          THEN last.res = NullPointerErr("OSRNewSpatialReference")
          ELSE last.res = FfiNulError
  /\ last.op = "get_proj_param_or_default" /\ NulGiven =>
       last.res = Ok(<<last.num>>) /\ last.calls = <<>>

\* C9 witness: from_definition was given a text with an embedded NUL after
\* its allocation succeeded, and returned the text-encoding error with the
\* engine given no text.
C9_Witness ==
  /\ last.op = "from_definition" /\ NulGiven
  /\ last.calls[1].ret # NULL /\ Len(last.calls) = 1
  /\ last.res = FfiNulError

\* C10 as first stated: axis_name and axis_orientation return the
\* axis-not-found error with the requested key when OSRGetAxis returns null
\* and Ok when it returns a pointer; with a key that names no node of the
\* definition both always return that error.
C10_AxisNotFoundAlways ==
  last.op \in {"axis_name", "axis_orientation"} =>
    /\ last.calls # <<>> =>
         IF last.calls[1].ret = NULL
         THEN last.res = AxisNotFoundError(last.txt[1], "OSRGetAxis")
         ELSE last.res.kind = "Ok"
    /\ Live(last.w) /\ IsObj(wrap[last.w].ref)
         /\ last.txt[1] \notin AxisKeys(heap[wrap[last.w].ref].c) =>
         last.res = AxisNotFoundError(last.txt[1], "OSRGetAxis")

\* C10 as amended: axis_name and axis_orientation return the axis-not-found
\* error with the requested key when OSRGetAxis returns null and Ok when it
\* returns a pointer; with a key that names no node of the definition both
\* return that error, unless the key has an embedded NUL byte: then both
\* return the text-encoding error and OSRGetAxis is not called.
C10_AxisNotFound ==
  last.op \in {"axis_name", "axis_orientation"} =>
    /\ last.calls # <<>> =>
         IF last.calls[1].ret = NULL
         THEN last.res = AxisNotFoundError(last.txt[1], "OSRGetAxis")
         ELSE last.res.kind = "Ok"
    /\ Live(last.w) /\ IsObj(wrap[last.w].ref)
         /\ last.txt[1] \notin AxisKeys(heap[wrap[last.w].ref].c) =>
         IF NulGiven
         THEN last.res = FfiNulError /\ last.calls = <<>>
         ELSE last.res = AxisNotFoundError(last.txt[1], "OSRGetAxis")

\* C10 witness: axis_name on a definition with no such node returned the
\* axis-not-found error carrying the non-empty key it was asked for.
C10_Witness ==
  /\ last.op = "axis_name" /\ last.txt[1] # <<>>
  /\ last.txt[1] \notin AxisKeys(heap[wrap[last.w].ref].c)
  /\ last.res = AxisNotFoundError(last.txt[1], "OSRGetAxis")

\* The parameter the engine would find for a name on the handle of the last
\* operation.
ParamPresent(nm) ==
  /\ Valid(heap, wrap[last.w].ref)
  /\ nm \in ParamNames
  /\ heap[wrap[last.w].ref].c.pp # <<>>

\* C11: get_proj_param_or_default(name, d) always returns a value: d when
\* the name has an embedded NUL, d when the definition has no such
\* parameter, the stored value when it has; get_proj_param with a name the
\* definition lacks returns the engine's error, never Ok with its 0.0.
C11_DefaultSubstitution ==
  /\ last.op = "get_proj_param_or_default" =>
       /\ last.res.kind = "Ok"
       /\ NulGiven => last.res = Ok(<<last.num>>)
       /\ ~NulGiven /\ ~ParamPresent(last.txt[1]) => last.res = Ok(<<last.num>>)
       /\ ~NulGiven /\ ParamPresent(last.txt[1]) =>
            last.res = Ok(<<heap[wrap[last.w].ref].c.pp[1]>>)
  /\ last.op = "get_proj_param" /\ ~NulGiven /\ ~ParamPresent(last.txt[1]) =>
       /\ last.res.kind = "OgrError"
       /\ last.res.method = "OSRGetProjParm"
       /\ last.res.err # OGRERR_NONE

\* C11 witness: on a geographic definition, which has no projection
\* parameter, get_proj_param_or_default was asked with the default 1 and
\* returned 1.
C11_Witness ==
  /\ last.op = "get_proj_param_or_default" /\ last.txt = <<<<1>>>> /\ last.num = 1
  /\ heap[wrap[last.w].ref].c.kind = "geog"
  /\ last.res = Ok(<<1>>)

\* The decimal text of an integer, as format! writes an i32.
RECURSIVE DecimalDigits(_)
DecimalDigits(n) ==
  IF n < 10 THEN <<48 + n>> ELSE Append(DecimalDigits(n \div 10), 48 + (n % 10))

DecimalText(n) == IF n < 0 THEN <<45>> \o DecimalDigits(0 - n) ELSE DecimalDigits(n)

\* C12: authority fails whenever auth_name or auth_code
\* would fail on the same handle in the same state, and when both succeed it
\* returns "name:code" built from the name and the code they return.
C12_AuthorityComposite ==
  last.op = "authority" =>
    LET n == AuthNameResult(heap, wrap[last.w].ref).res
        c == AuthCodeResult(heap, wrap[last.w].ref).res
    IN /\ (n.kind # "Ok" \/ c.kind # "Ok") => last.res.kind # "Ok"
       /\ (n.kind = "Ok" /\ c.kind = "Ok") =>
            last.res = Ok(n.val \o <<58>> \o DecimalText(c.val[1]))

\* What authority does instead: it fails exactly when auth_name fails, when
\* auth_code fails for lack of a code (a null pointer), or when either text
\* is not UTF-8; it does not fail when auth_code fails only because the code
\* text is no 32-bit integer.  When it succeeds it returns "name:code" with
\* the name auth_name returns and the code text as the engine holds it,
\* which, when auth_code succeeds, parses to the number auth_code returns.
C12_AuthorityFromEngineTexts ==
  last.op = "authority" =>
    LET n == AuthNameResult(heap, wrap[last.w].ref).res
        c == AuthCodeResult(heap, wrap[last.w].ref).res
        code == OSRGetAuthorityCode(heap, wrap[last.w].ref)
    IN /\ last.res.kind = "Ok" <=>
            /\ n.kind = "Ok" /\ ToStr(n.val) # <<>>
            /\ c.kind \notin {"NullPointer", "StrUtf8Error"}
       /\ last.res.kind = "Ok" =>
            /\ last.res = Ok(n.val \o <<58>> \o CStrRead(code[1]))
            /\ c.kind = "Ok" => I32FromStr(CStrRead(code[1])) = c.val

\* The case that separates the two: on a definition tagged IGNF:LAMB93, where
\* auth_code fails, authority returned "IGNF:LAMB93".
C12_Witness ==
  /\ last.op = "authority"
  /\ AuthCodeResult(heap, wrap[last.w].ref).res.kind = "OgrError"
  /\ last.res = Ok(IGNF \o <<58>> \o AuthLamb93)

\* The kinds of result the error taxonomy lists beside the parse error.
OtherKinds == {"Ok", "NullPointer", "OgrError", "AxisNotFoundError", "FfiNulError",
               "StrUtf8Error"}

\* The code text the engine holds for the handle of the last operation.
CodeText ==
  LET c_ptr == OSRGetAuthorityCode(heap, wrap[last.w].ref)
  IN IF c_ptr = <<>> THEN <<>> ELSE CStrRead(c_ptr[1])

\* C13: auth_code returns the null-pointer error when the
\* engine returns no code, and an error of a kind of its own, the parse
\* error, when the engine returns text that is no integer.
C13_ParseErrorKind ==
  last.op = "auth_code" =>
    /\ last.calls[1].ret = NULL => last.res = NullPointerErr("OSRGetAuthorityCode")
    /\ last.calls[1].ret # NULL /\ I32FromStr(CodeText) = <<>> =>
         last.res.kind \notin OtherKinds

\* What auth_code does instead: the null-pointer error naming
\* OSRGetAuthorityCode when the engine returns no code; the text-encoding
\* error when the text is not UTF-8; for text that is no 32-bit integer the
\* error of the operations with a result code, OgrError, with the code
\* OGRERR_UNSUPPORTED_SRS and the name OSRGetAuthorityCode; for an integer,
\* that integer.
C13_AuthCodeFailureKinds ==
  last.op = "auth_code" =>
    /\ Len(last.calls) = 1 /\ last.calls[1].fn = "OSRGetAuthorityCode"
    /\ last.calls[1].ret = NULL => last.res = NullPointerErr("OSRGetAuthorityCode")
    /\ last.calls[1].ret # NULL /\ ToStr(CodeText) = <<>> => last.res = StrUtf8Error
    /\ last.calls[1].ret # NULL /\ ToStr(CodeText) # <<>> /\ I32FromStr(CodeText) = <<>> =>
         last.res = OgrError(OGRERR_UNSUPPORTED_SRS, "OSRGetAuthorityCode")
    /\ last.calls[1].ret # NULL /\ ToStr(CodeText) # <<>> /\ I32FromStr(CodeText) # <<>> =>
         last.res = Ok(I32FromStr(CodeText))

\* On a definition tagged IGNF:LAMB93 auth_code returned OgrError with
\* OGRERR_UNSUPPORTED_SRS.
C13_Witness ==
  /\ last.op = "auth_code" /\ CodeText = AuthLamb93
  /\ last.res = OgrError(OGRERR_UNSUPPORTED_SRS, "OSRGetAuthorityCode")

\* C14: a null-pointer error carries the name of the engine call that
\* returned the null pointer, which is the last call the operation made.
C14_NullErrorNamesEngineCall ==
  last.res.kind = "NullPointer" =>
    /\ last.calls # <<>>
    /\ last.calls[Len(last.calls)].ret = NULL
    /\ last.res.method = last.calls[Len(last.calls)].fn

\* The same for every engine call but OSRGetAuthorityName.
C14_ExceptAuthorityName ==
  last.res.kind = "NullPointer" =>
    /\ last.calls # <<>>
    /\ last.calls[Len(last.calls)].ret = NULL
    /\ last.calls[Len(last.calls)].fn # "OSRGetAuthorityName" =>
         last.res.method = last.calls[Len(last.calls)].fn

\* C15: area_of_use makes one OSRGetAreaOfUse call on the handle and always
\* returns a value: None exactly when that call does not return 1, else
\* Some with the four bounds and the name the engine holds for the
\* definition as it is at the call.
C15_AreaOfUseFromEngine ==
  last.op = "area_of_use" =>
    LET out == OSRGetAreaOfUse(heap, wrap[last.w].ref)
    IN /\ last.res.kind = "Ok"
       /\ last.calls = <<Call("OSRGetAreaOfUse", wrap[last.w].ref, <<>>, OGRERR_NONE, out.ret)>>
       /\ last.res.val = <<>> <=> out.ret # 1
       /\ out.ret = 1 =>
            last.res.val = <<[west_lon_degree |-> out.w_long, south_lat_degree |-> out.s_lat,
                             east_lon_degree |-> out.e_long, north_lat_degree |-> out.n_lat,
                             name |-> CStrRead(out.name[1])]>>

\* C15 witness: area_of_use returned None for a projected definition with no
\* authority recorded.
C15_Witness ==
  /\ last.op = "area_of_use" /\ last.res = Ok(<<>>)
  /\ heap[wrap[last.w].ref].c.kind = "proj"

\* What auth_code would return on wrapper w with the engine's objects hp.
AuthCodeOn(hp, w) == AuthCodeResult(hp, wrap[w].ref).res

\* C16: on a handle with no authority recorded auth_code fails, and keeps
\* failing in the same way over every step that is not a successful
\* auto_identify_epsg on that handle, a failed auto_identify_epsg included;
\* right after auto_identify_epsg returns Ok on such a handle auth_code
\* returns 32632.
C16_AutoIdentifyOrdering ==
  [][\A w \in Wraps :
       (Live(w) /\ wrap'[w] = wrap[w]
          /\ AuthCodeOn(heap, w) = NullPointerErr("OSRGetAuthorityCode")) =>
         IF last'.op = "auto_identify_epsg" /\ last'.w = w /\ last'.res.kind = "Ok"
         THEN AuthCodeOn(heap', w) = Ok(<<32632>>)
         ELSE AuthCodeOn(heap', w) = AuthCodeOn(heap, w)]_vars

\* C16 witness: auto_identify_epsg returned Ok on a handle built from WKT,
\* and auth_code on it now returns 32632.
C16_Witness ==
  /\ last.op = "auto_identify_epsg" /\ last.res.kind = "Ok"
  /\ AuthCodeOn(heap, last.w) = Ok(<<32632>>)

\* What the engine answers to a get of parameter nm on wrapper w.
ProjParmOn(hp, w, nm) == OSRGetProjParm(hp, wrap[w].ref, Append(nm, 0), 0)

PlainTexts == {t \in Texts : ~HasNul(t)}

\* C17: get_proj_param returns the value the engine holds and
\* axis_mapping_strategy the strategy it holds; after set_proj_param(name, v)
\* returns Ok the engine holds v for name; a set_proj_param that returns an
\* error, and every operation other than set_proj_param on the handle,
\* leaves every parameter as it was; after set_axis_mapping_strategy(s) the
\* engine holds s, and no other operation changes the strategy.
C17_Getters ==
  /\ last.op = "get_proj_param" /\ ~NulGiven /\ ParamPresent(last.txt[1]) =>
       last.res = Ok(<<heap[wrap[last.w].ref].c.pp[1]>>)
  /\ last.op = "axis_mapping_strategy" =>
       last.res = Ok(<<OSRGetAxisMappingStrategy(heap, wrap[last.w].ref)>>)

C17_Setters ==
  [][\A w \in Wraps : (Live(w) /\ wrap'[w] = wrap[w]) =>
       /\ IF last'.op = "set_proj_param" /\ last'.w = w /\ last'.res.kind = "Ok"
          THEN ProjParmOn(heap', w, last'.txt[1]) = {<<OGRERR_NONE, last'.num>>}
          ELSE \A nm \in PlainTexts : ProjParmOn(heap', w, nm) = ProjParmOn(heap, w, nm)
       /\ IF last'.op = "set_axis_mapping_strategy" /\ last'.w = w
          THEN OSRGetAxisMappingStrategy(heap', wrap[w].ref) = last'.num
          ELSE OSRGetAxisMappingStrategy(heap', wrap[w].ref)
                 = OSRGetAxisMappingStrategy(heap, wrap[w].ref)]_vars

C17_SetThenGet == []C17_Getters /\ C17_Setters

\* C17 witness: set_proj_param stored 1 over the 0 the definition came
\* with, on a handle whose strategy had been set to 0.
C17_Witness ==
  /\ last.op = "set_proj_param" /\ last.res.kind = "Ok" /\ last.num = 1
  /\ heap[wrap[last.w].ref].c.pp = <<1>>
  /\ heap[wrap[last.w].ref].c.strat = 0

\* The format each export writes.
FormatOf(op) ==
  CASE op = "to_wkt" -> "Wkt" [] op = "to_pretty_wkt" -> "PrettyWkt" [] op = "to_xml" -> "XML"
    [] op = "to_proj4" -> "Proj4" [] OTHER -> "PROJJSON"

\* C18: a successful export makes three calls in this order: the engine's
\* export, the copy of the buffer, the free of the same buffer, and returns
\* the text the engine wrote; a failed export makes the engine's export and
\* the free, with no read of the buffer.
C18_CopyBeforeFree ==
  last.op \in ExportOps =>
    IF last.res.kind = "Ok"
    THEN /\ Len(last.calls) = 3
         /\ last.calls[1].fn = CodeFn(last.op)
         /\ last.calls[2] = Call("_string", NULL, <<>>, OGRERR_NONE, last.calls[1].ret)
         /\ last.calls[3] = Call("VSIFree", NULL, <<>>, OGRERR_NONE, last.calls[1].ret)
         /\ last.res.val = CStrRead(ExportBytes(heap[wrap[last.w].ref].c, FormatOf(last.op)))
    ELSE /\ Len(last.calls) = 2
         /\ last.calls[1].fn = CodeFn(last.op)
         /\ last.calls[2] = Call("VSIFree", NULL, <<>>, OGRERR_NONE, last.calls[1].ret)

\* C18 witness: to_proj4 returned a non-empty text and the buffer it was
\* copied from has been freed.
C18_Witness ==
  /\ last.op = "to_proj4" /\ last.res.kind = "Ok" /\ last.res.val # <<>>
  /\ bufs[last.calls[1].ret].st = "freed"
====
